---- MODULE Spec2Model ----
(***************************************************************************)
(* WebViewManager (components/constellation/webview.rs): the registry of  *)
(* top-level webviews, their focus order and their visibility markers.    *)
(*                                                                         *)
(* One action per public method.  Each call records itself in `call` and  *)
(* its return value in `ret`, with the fields as they were when it was    *)
(* made in `before`; the caller lets go of the result (release) before it *)
(* calls again.  The debug_assert! preconditions are modelled as compiled *)
(* in (the configuration the unit test runs under): a failed assertion    *)
(* panics, leaves every field as it was and ends the run.                 *)
(*                                                                         *)
(* `mirror` is the caller's copy of each webview's effective visibility,  *)
(* kept from the return values only: the caller's side of the change      *)
(* notifications the mark_* methods exist for.  `latest` is the history   *)
(* of the calls, per webview: the payload of its latest add, and whether  *)
(* its latest shown-marker and invisible-marker calls set the marker.     *)
(***************************************************************************)
EXTENDS Naturals, Sequences, FiniteSets

\* Number of distinct TopLevelBrowsingContextIds the callers draw from.
NumIds == 2

\* TopLevelBrowsingContextId / WebViewId values (opaque, totally ordered).
Ids == 1..NumIds

\* Number of distinct WebView payloads the callers register.
NumPayloads == 2

\* WebView payloads (opaque to the manager).
Payloads == 1..NumPayloads

VARIABLES
    webviews,            \* HashMap<TopLevelBrowsingContextId, WebView>
    focus_order,         \* Vec<TopLevelBrowsingContextId>, latest last
    is_focused,          \* bool
    shown_webviews,      \* HashSet<TopLevelBrowsingContextId>
    invisible_webviews,  \* HashSet<TopLevelBrowsingContextId>
    panic,               \* which debug assertion failed, NoPanic if none
    call,                \* the last call: [op, id]
    ret,                 \* the last call's return value
    before,              \* the fields when the last call was made
    mirror,              \* the caller's record of effective visibility, per webview
    latest               \* what the calls made so far say about each webview

fields == <<webviews, focus_order, is_focused, shown_webviews, invisible_webviews>>

vars == <<webviews, focus_order, is_focused, shown_webviews, invisible_webviews,
          panic, call, ret, before, mirror, latest>>

(***************************************************************************)
(* Values                                                                  *)
(***************************************************************************)
\* Option<T>
None == [some |-> FALSE]

Some(v) == [some |-> TRUE, val |-> v]

\* The unit value `()` of the methods that return nothing.
Unit == [unit |-> TRUE]

\* The id slot of a call that takes no id: a value that is no id.
NoId == NumIds + 1

\* No call's result is outstanding: the caller is free to make the next call.
NoCall == [op |-> "none", id |-> NoId]

NoPanic == "none"

\* debug_assert!(self.webviews.contains_key(&id)) of focus, mark_*, is_effectively_visible
PanicPrecondition == "assertion failed: self.webviews.contains_key(&id)"

\* the two assertions inside focused_webview
PanicNotInWebviews == "BUG: webview in .focus_order not in .webviews!"

PanicNoFocusOrder == "BUG: .is_focused but no webviews in .focus_order!"

(***************************************************************************)
(* Collection helpers                                                      *)
(***************************************************************************)
\* HashMap::contains_key
contains_key(map, k) == k \in DOMAIN map

\* Mutant of insert: an existing entry is kept, not overwritten.
insert_if_absent(map, k, v) ==
    [x \in (DOMAIN map) \cup {k} |-> IF x \in DOMAIN map THEN map[x] ELSE v]

\* HashMap::insert
insert(map, k, v) == [x \in (DOMAIN map) \cup {k} |-> IF x = k THEN v ELSE map[x]]

\* Mutant of without: the entry is not deleted.
without_keeping(map, k) == map

\* HashMap::remove, the map it leaves
without(map, k) == [x \in (DOMAIN map) \ {k} |-> map[x]]

\* HashMap::get
lookup(map, k) == IF k \in DOMAIN map THEN Some(map[k]) ELSE None

\* Mutant of retain_ne: nothing is dropped.
retain_all(vec, id) == vec

\* Vec::retain(|b| *b != id)
retain_ne(vec, id) == SelectSeq(vec, LAMBDA b : b # id)

\* Mutant of last: the first element instead of the last.
first(vec) == IF Len(vec) = 0 THEN None ELSE Some(vec[1])

\* Vec::last
last(vec) == IF Len(vec) = 0 THEN None ELSE Some(vec[Len(vec)])

\* Mutant of push: the element goes to the front.
push_front(vec, id) == <<id>> \o vec

\* Vec::push
push(vec, id) == Append(vec, id)

(***************************************************************************)
(* Queries                                                                 *)
(***************************************************************************)
\* is_effectively_visible, on the given sets
effectively_visible(shown, invisible, id) == id \in shown /\ id \notin invisible

Called(op, id) == [op |-> op, id |-> id]

\* A call of add, with the payload it was given.
CalledAdd(id, webview) == [op |-> "add", id |-> id, webview |-> webview]

\* The manager can be called: no assertion has failed and the result of the
\* previous call (for get, get_mut and focused_webview a borrow of the manager)
\* has been let go.
Callable == panic = NoPanic /\ call = NoCall

\* The fields of the manager, as a value.
Snapshot ==
    [webviews |-> webviews,
     focus_order |-> focus_order,
     is_focused |-> is_focused,
     shown_webviews |-> shown_webviews,
     invisible_webviews |-> invisible_webviews]

MarkOps ==
    {"mark_webview_shown", "mark_webview_not_shown",
     "mark_webview_invisible", "mark_webview_not_invisible"}

\* The caller's bookkeeping on a call's return: a webview starts as not visible
\* when it is created, is forgotten when it is removed, and flips on each change
\* a mark_* call reports.
mirror_after(op, id, value) ==
    CASE op = "add" ->
             IF id \in DOMAIN mirror THEN mirror ELSE insert(mirror, id, FALSE)
      [] op = "remove" -> without(mirror, id)
      [] op \in MarkOps ->
             IF value THEN [mirror EXCEPT ![id] = ~mirror[id]] ELSE mirror
      [] op = "mark_all_webviews_not_shown" ->
             [x \in DOMAIN mirror |-> IF x \in value THEN ~mirror[x] ELSE mirror[x]]
      [] OTHER -> mirror

\* The history after the call c has returned, counted from the webview's last
\* removal: webview[id] is the payload of the latest add(id, _); id is in shown
\* iff the latest of mark_webview_shown(id), mark_webview_not_shown(id) and
\* mark_all_webviews_not_shown() was mark_webview_shown(id); id is in invisible
\* iff the latest of mark_webview_invisible(id) and mark_webview_not_invisible(id)
\* was mark_webview_invisible(id).
latest_after(c) ==
    CASE c.op = "add" ->
             [latest EXCEPT !.webview =
                 [x \in (DOMAIN latest.webview) \cup {c.id} |->
                     IF x = c.id THEN c.webview ELSE latest.webview[x]]]
      [] c.op = "remove" ->
             [webview |-> [x \in (DOMAIN latest.webview) \ {c.id} |-> latest.webview[x]],
              shown |-> latest.shown \ {c.id},
              invisible |-> latest.invisible \ {c.id}]
      [] c.op = "mark_webview_shown" -> [latest EXCEPT !.shown = @ \cup {c.id}]
      [] c.op = "mark_webview_not_shown" -> [latest EXCEPT !.shown = @ \ {c.id}]
      [] c.op = "mark_all_webviews_not_shown" -> [latest EXCEPT !.shown = {}]
      [] c.op = "mark_webview_invisible" -> [latest EXCEPT !.invisible = @ \cup {c.id}]
      [] c.op = "mark_webview_not_invisible" -> [latest EXCEPT !.invisible = @ \ {c.id}]
      [] OTHER -> latest

\* A debug assertion fails: the call panics before touching any field.
Panics(op, id, msg) ==
    /\ panic' = msg
    /\ call' = Called(op, id)
    /\ ret' = Unit
    /\ before' = Snapshot
    /\ UNCHANGED <<fields, mirror, latest>>

\* The call c returns value.
Return(c, value) ==
    /\ panic' = panic
    /\ call' = c
    /\ ret' = value
    /\ before' = Snapshot
    /\ mirror' = mirror_after(c.op, c.id, value)
    /\ latest' = latest_after(c)

Returns(op, id, value) == Return(Called(op, id), value)

(***************************************************************************)
(* Initial state: WebViewManager::default()                                *)
(***************************************************************************)
Init ==
    /\ webviews = << >>
    /\ focus_order = << >>
    /\ is_focused = FALSE
    /\ shown_webviews = {}
    /\ invisible_webviews = {}
    /\ panic = NoPanic
    /\ call = NoCall
    /\ ret = Unit
    /\ before = Snapshot
    /\ mirror = << >>
    /\ latest = [webview |-> << >>, shown |-> {}, invisible |-> {}]

(***************************************************************************)
(* Methods                                                                 *)
(***************************************************************************)
\* Mutant of add: the webview starts afresh, its markers are cleared.
add_clearing_markers(id, webview) ==
    /\ Callable
    /\ webviews' = insert(webviews, id, webview)
    /\ shown_webviews' = shown_webviews \ {id}
    /\ invisible_webviews' = invisible_webviews \ {id}
    /\ UNCHANGED <<focus_order, is_focused>>
    /\ Return(CalledAdd(id, webview), Unit)

add(id, webview) ==
    /\ Callable
    /\ webviews' = insert(webviews, id, webview)
    /\ UNCHANGED <<focus_order, is_focused, shown_webviews, invisible_webviews>>
    /\ Return(CalledAdd(id, webview), Unit)

\* Mutant of remove: the focused flag is never cleared.
remove_keeping_is_focused(id) ==
    /\ Callable
    /\ is_focused' = is_focused
    /\ focus_order' = retain_ne(focus_order, id)
    /\ shown_webviews' = shown_webviews \ {id}
    /\ invisible_webviews' = invisible_webviews \ {id}
    /\ webviews' = without(webviews, id)
    /\ Returns("remove", id, lookup(webviews, id))

\* Mutant of remove: the focus order is not pruned.
remove_keeping_focus_order(id) ==
    /\ Callable
    /\ is_focused' = IF last(focus_order) = Some(id) THEN FALSE ELSE is_focused
    /\ focus_order' = focus_order
    /\ shown_webviews' = shown_webviews \ {id}
    /\ invisible_webviews' = invisible_webviews \ {id}
    /\ webviews' = without(webviews, id)
    /\ Returns("remove", id, lookup(webviews, id))

\* Mutant of remove: the shown set is not pruned.
remove_keeping_shown(id) ==
    /\ Callable
    /\ is_focused' = IF last(focus_order) = Some(id) THEN FALSE ELSE is_focused
    /\ focus_order' = retain_ne(focus_order, id)
    /\ shown_webviews' = shown_webviews
    /\ invisible_webviews' = invisible_webviews \ {id}
    /\ webviews' = without(webviews, id)
    /\ Returns("remove", id, lookup(webviews, id))

remove(id) ==
    /\ Callable
    /\ is_focused' = IF last(focus_order) = Some(id) THEN FALSE ELSE is_focused
    /\ focus_order' = retain_ne(focus_order, id)
    /\ shown_webviews' = shown_webviews \ {id}
    /\ invisible_webviews' = invisible_webviews \ {id}
    /\ webviews' = without(webviews, id)
    /\ Returns("remove", id, lookup(webviews, id))

get(id) ==
    /\ Callable
    /\ UNCHANGED fields
    /\ Returns("get", id, lookup(webviews, id))

\* The lookup only: what the caller writes through the reference is the caller's.
get_mut(id) ==
    /\ Callable
    /\ UNCHANGED fields
    /\ Returns("get_mut", id, lookup(webviews, id))

\* Mutant of focused_webview: the focused flag is not consulted.
focused_webview_ignoring_is_focused ==
    /\ Callable
    /\ IF last(focus_order) # None
       THEN LET id == last(focus_order).val IN
            IF ~contains_key(webviews, id)
            THEN Panics("focused_webview", NoId, PanicNotInWebviews)
            ELSE /\ UNCHANGED fields
                 /\ Returns("focused_webview", NoId, Some(<<id, webviews[id]>>))
       ELSE UNCHANGED fields /\ Returns("focused_webview", NoId, None)

focused_webview ==
    /\ Callable
    /\ IF ~is_focused
       THEN UNCHANGED fields /\ Returns("focused_webview", NoId, None)
       ELSE IF last(focus_order) # None
            THEN LET id == last(focus_order).val IN
                 IF ~contains_key(webviews, id)
                 THEN Panics("focused_webview", NoId, PanicNotInWebviews)
                 ELSE /\ UNCHANGED fields
                      /\ Returns("focused_webview", NoId, Some(<<id, webviews[id]>>))
            ELSE Panics("focused_webview", NoId, PanicNoFocusOrder)

\* Mutant of focus: earlier occurrences of the id are not dropped.
focus_without_retain(id) ==
    /\ Callable
    /\ IF ~contains_key(webviews, id)
       THEN Panics("focus", id, PanicPrecondition)
       ELSE /\ focus_order' = push(focus_order, id)
            /\ is_focused' = TRUE
            /\ UNCHANGED <<webviews, shown_webviews, invisible_webviews>>
            /\ Returns("focus", id, Unit)

\* Mutant of focus: the precondition is not asserted.
focus_unasserted(id) ==
    /\ Callable
    /\ focus_order' = push(retain_ne(focus_order, id), id)
    /\ is_focused' = TRUE
    /\ UNCHANGED <<webviews, shown_webviews, invisible_webviews>>
    /\ Returns("focus", id, Unit)

focus(id) ==
    /\ Callable
    /\ IF ~contains_key(webviews, id)
       THEN Panics("focus", id, PanicPrecondition)
       ELSE /\ focus_order' = push(retain_ne(focus_order, id), id)
            /\ is_focused' = TRUE
            /\ UNCHANGED <<webviews, shown_webviews, invisible_webviews>>
            /\ Returns("focus", id, Unit)

\* Mutant of unfocus: the latest entry of the focus order is dropped too.
unfocus_popping ==
    /\ Callable
    /\ is_focused' = FALSE
    /\ focus_order' = SubSeq(focus_order, 1, Len(focus_order) - 1)
    /\ UNCHANGED <<webviews, shown_webviews, invisible_webviews>>
    /\ Returns("unfocus", NoId, Unit)

unfocus ==
    /\ Callable
    /\ is_focused' = FALSE
    /\ UNCHANGED <<webviews, focus_order, shown_webviews, invisible_webviews>>
    /\ Returns("unfocus", NoId, Unit)

\* Mutant of mark_webview_shown: the invisible marker is dropped as well.
mark_webview_shown_dropping_invisible(id) ==
    /\ Callable
    /\ IF ~contains_key(webviews, id)
       THEN Panics("mark_webview_shown", id, PanicPrecondition)
       ELSE LET old_effective_visibility ==
                    effectively_visible(shown_webviews, invisible_webviews, id)
            IN  /\ shown_webviews' = shown_webviews \cup {id}
                /\ invisible_webviews' = invisible_webviews \ {id}
                /\ UNCHANGED <<webviews, focus_order, is_focused>>
                /\ Returns("mark_webview_shown", id,
                       effectively_visible(shown_webviews', invisible_webviews', id)
                           # old_effective_visibility)

\* Mutant of mark_webview_shown: reports whether the shown set changed.
mark_webview_shown_reporting_insert(id) ==
    /\ Callable
    /\ IF ~contains_key(webviews, id)
       THEN Panics("mark_webview_shown", id, PanicPrecondition)
       ELSE /\ shown_webviews' = shown_webviews \cup {id}
            /\ UNCHANGED <<webviews, focus_order, is_focused, invisible_webviews>>
            /\ Returns("mark_webview_shown", id, id \notin shown_webviews)

mark_webview_shown(id) ==
    /\ Callable
    /\ IF ~contains_key(webviews, id)
       THEN Panics("mark_webview_shown", id, PanicPrecondition)
       ELSE LET old_effective_visibility ==
                    effectively_visible(shown_webviews, invisible_webviews, id)
            IN  /\ shown_webviews' = shown_webviews \cup {id}
                /\ UNCHANGED <<webviews, focus_order, is_focused, invisible_webviews>>
                /\ Returns("mark_webview_shown", id,
                       effectively_visible(shown_webviews', invisible_webviews', id)
                           # old_effective_visibility)

\* Mutant of mark_webview_not_shown: reports whether the shown set changed.
mark_webview_not_shown_reporting_remove(id) ==
    /\ Callable
    /\ IF ~contains_key(webviews, id)
       THEN Panics("mark_webview_not_shown", id, PanicPrecondition)
       ELSE /\ shown_webviews' = shown_webviews \ {id}
            /\ UNCHANGED <<webviews, focus_order, is_focused, invisible_webviews>>
            /\ Returns("mark_webview_not_shown", id, id \in shown_webviews)

mark_webview_not_shown(id) ==
    /\ Callable
    /\ IF ~contains_key(webviews, id)
       THEN Panics("mark_webview_not_shown", id, PanicPrecondition)
       ELSE LET old_effective_visibility ==
                    effectively_visible(shown_webviews, invisible_webviews, id)
            IN  /\ shown_webviews' = shown_webviews \ {id}
                /\ UNCHANGED <<webviews, focus_order, is_focused, invisible_webviews>>
                /\ Returns("mark_webview_not_shown", id,
                       effectively_visible(shown_webviews', invisible_webviews', id)
                           # old_effective_visibility)

\* Mutant of mark_all_webviews_not_shown: the result is not filtered.
mark_all_webviews_not_shown_unfiltered ==
    /\ Callable
    /\ LET result == shown_webviews
       IN  /\ shown_webviews' = {}
           /\ UNCHANGED <<webviews, focus_order, is_focused, invisible_webviews>>
           /\ Returns("mark_all_webviews_not_shown", NoId, result)

mark_all_webviews_not_shown ==
    /\ Callable
    /\ LET result == shown_webviews
       IN  /\ shown_webviews' = {}
           /\ UNCHANGED <<webviews, focus_order, is_focused, invisible_webviews>>
           /\ Returns("mark_all_webviews_not_shown", NoId,
                  {id \in result : id \notin invisible_webviews})

\* Mutant of mark_webview_invisible: reports whether the invisible set changed.
mark_webview_invisible_reporting_insert(id) ==
    /\ Callable
    /\ IF ~contains_key(webviews, id)
       THEN Panics("mark_webview_invisible", id, PanicPrecondition)
       ELSE /\ invisible_webviews' = invisible_webviews \cup {id}
            /\ UNCHANGED <<webviews, focus_order, is_focused, shown_webviews>>
            /\ Returns("mark_webview_invisible", id, id \notin invisible_webviews)

\* Mutant of mark_webview_invisible: the shown marker is dropped as well.
mark_webview_invisible_dropping_shown(id) ==
    /\ Callable
    /\ IF ~contains_key(webviews, id)
       THEN Panics("mark_webview_invisible", id, PanicPrecondition)
       ELSE LET old_effective_visibility ==
                    effectively_visible(shown_webviews, invisible_webviews, id)
            IN  /\ invisible_webviews' = invisible_webviews \cup {id}
                /\ shown_webviews' = shown_webviews \ {id}
                /\ UNCHANGED <<webviews, focus_order, is_focused>>
                /\ Returns("mark_webview_invisible", id,
                       effectively_visible(shown_webviews', invisible_webviews', id)
                           # old_effective_visibility)

mark_webview_invisible(id) ==
    /\ Callable
    /\ IF ~contains_key(webviews, id)
       THEN Panics("mark_webview_invisible", id, PanicPrecondition)
       ELSE LET old_effective_visibility ==
                    effectively_visible(shown_webviews, invisible_webviews, id)
            IN  /\ invisible_webviews' = invisible_webviews \cup {id}
                /\ UNCHANGED <<webviews, focus_order, is_focused, shown_webviews>>
                /\ Returns("mark_webview_invisible", id,
                       effectively_visible(shown_webviews', invisible_webviews', id)
                           # old_effective_visibility)

\* Mutant of mark_webview_not_invisible: reports whether the invisible set changed.
mark_webview_not_invisible_reporting_remove(id) ==
    /\ Callable
    /\ IF ~contains_key(webviews, id)
       THEN Panics("mark_webview_not_invisible", id, PanicPrecondition)
       ELSE /\ invisible_webviews' = invisible_webviews \ {id}
            /\ UNCHANGED <<webviews, focus_order, is_focused, shown_webviews>>
            /\ Returns("mark_webview_not_invisible", id, id \in invisible_webviews)

mark_webview_not_invisible(id) ==
    /\ Callable
    /\ IF ~contains_key(webviews, id)
       THEN Panics("mark_webview_not_invisible", id, PanicPrecondition)
       ELSE LET old_effective_visibility ==
                    effectively_visible(shown_webviews, invisible_webviews, id)
            IN  /\ invisible_webviews' = invisible_webviews \ {id}
                /\ UNCHANGED <<webviews, focus_order, is_focused, shown_webviews>>
                /\ Returns("mark_webview_not_invisible", id,
                       effectively_visible(shown_webviews', invisible_webviews', id)
                           # old_effective_visibility)

is_effectively_visible(id) ==
    /\ Callable
    /\ IF ~contains_key(webviews, id)
       THEN Panics("is_effectively_visible", id, PanicPrecondition)
       ELSE /\ UNCHANGED fields
            /\ Returns("is_effectively_visible", id,
                   effectively_visible(shown_webviews, invisible_webviews, id))

\* The caller lets go of the value the last call returned.
release ==
    /\ panic = NoPanic
    /\ call # NoCall
    /\ call' = NoCall
    /\ ret' = Unit
    /\ before' = Snapshot
    /\ UNCHANGED <<fields, panic, mirror, latest>>

Next ==
    \/ \E id \in Ids, webview \in Payloads : add(id, webview)
    \/ \E id \in Ids : remove(id)
    \/ \E id \in Ids : get(id)
    \/ \E id \in Ids : get_mut(id)
    \/ focused_webview
    \/ \E id \in Ids : focus(id)
    \/ unfocus
    \/ \E id \in Ids : mark_webview_shown(id)
    \/ \E id \in Ids : mark_webview_not_shown(id)
    \/ mark_all_webviews_not_shown
    \/ \E id \in Ids : mark_webview_invisible(id)
    \/ \E id \in Ids : mark_webview_not_invisible(id)
    \/ \E id \in Ids : is_effectively_visible(id)
    \/ release

Spec == Init /\ [][Next]_vars

(***************************************************************************)
(* Notions the properties are stated in, written without the model's own   *)
(* helpers.                                                                 *)
(***************************************************************************)
Registered == DOMAIN webviews

Elems(seq) == {seq[i] : i \in 1..Len(seq)}

NoDuplicates(seq) == \A i, j \in 1..Len(seq) : i # j => seq[i] # seq[j]

\* The last element of a sequence as a sequence of length at most one.
TailOf(seq) == IF Len(seq) = 0 THEN << >> ELSE <<seq[Len(seq)]>>

\* seq with every occurrence of x deleted, the rest in their order.
RECURSIVE Deleted(_, _)
Deleted(seq, x) ==
    IF Len(seq) = 0 THEN << >>
    ELSE IF Head(seq) = x THEN Deleted(Tail(seq), x)
         ELSE <<Head(seq)>> \o Deleted(Tail(seq), x)

\* Effective visibility of id in a snapshot s of the fields.
VisibleIn(s, id) == id \in s.shown_webviews /\ id \notin s.invisible_webviews

\* The focused webview of a snapshot s: (id, payload) as a sequence, empty if none.
FocusedIn(s) ==
    IF s.is_focused /\ Len(s.focus_order) > 0
    THEN LET t == s.focus_order[Len(s.focus_order)] IN
         IF t \in DOMAIN s.webviews THEN <<t, s.webviews[t]>> ELSE <<t>>
    ELSE << >>

\* The last call returned (no assertion failed in it).
Returned(op) == call.op = op /\ panic = NoPanic

(***************************************************************************)
(* Properties                                                              *)
(***************************************************************************)

\* C1: whenever the focused flag is true, the focus order is non-empty and its
\* last element is a key of the registry; neither assertion inside
\* focused_webview ever fails.
C1_FocusedTailRegistered ==
    /\ is_focused =>
           /\ Len(focus_order) > 0
           /\ focus_order[Len(focus_order)] \in Registered
    /\ panic \notin {PanicNotInWebviews, PanicNoFocusOrder}

\* remove of an entry of the focus order that is not its tail, while focused:
\* the flag stays true and the tail stays registered.
C1_Witness ==
    /\ Returned("remove")
    /\ before.is_focused
    /\ is_focused
    /\ call.id \in Elems(before.focus_order)

\* C2: the focus order never contains an identifier more than once.
C2_FocusOrderNoDuplicates == NoDuplicates(focus_order)

\* focus of an id that was already in the focus order, not at its tail.
C2_Witness ==
    /\ Returned("focus")
    /\ Len(before.focus_order) >= 2
    /\ call.id \in Elems(before.focus_order)
    /\ TailOf(before.focus_order) # <<call.id>>

\* C3: every identifier in the focus order, in the shown set and in the
\* invisible set is a key of the registry.
C3_AllRegistered ==
    /\ Elems(focus_order) \subseteq Registered
    /\ shown_webviews \subseteq Registered
    /\ invisible_webviews \subseteq Registered

\* remove of a webview that was in the focus order and in both sets, while
\* another webview stays marked.
C3_Witness ==
    /\ Returned("remove")
    /\ call.id \in Elems(before.focus_order)
    /\ call.id \in before.shown_webviews
    /\ call.id \in before.invisible_webviews
    /\ shown_webviews \cup invisible_webviews # {}

\* C4: remove(id) leaves the focused flag false if id was the last element of
\* the focus order; for every other id the flag, the last element of the focus
\* order and the focused webview are as they were.
C4_RemoveClearsFocusIffTail ==
    Returned("remove") =>
        IF TailOf(before.focus_order) = <<call.id>>
        THEN is_focused = FALSE
        ELSE /\ is_focused = before.is_focused
             /\ TailOf(focus_order) = TailOf(before.focus_order)
             /\ FocusedIn(Snapshot) = FocusedIn(before)

\* remove of the focused webview while another id remains in the focus order.
C4_Witness ==
    /\ Returned("remove")
    /\ before.is_focused
    /\ TailOf(before.focus_order) = <<call.id>>
    /\ ~is_focused
    /\ Len(focus_order) > 0

\* C5: each of the four mark_* methods, called with a registered id, returns
\* true iff the id's effective visibility after the call differs from the one
\* before it.
C5_MarkReturnsVisibilityChange ==
    (call.op \in MarkOps /\ panic = NoPanic) =>
        ret = (VisibleIn(Snapshot, call.id) # VisibleIn(before, call.id))

\* mark_webview_not_shown of a shown but invisible webview: the shown set
\* changes, the effective visibility does not, and the call returns false.
C5_Witness ==
    /\ Returned("mark_webview_not_shown")
    /\ call.id \in before.shown_webviews
    /\ call.id \in before.invisible_webviews
    /\ ret = FALSE

\* C6: mark_all_webviews_not_shown leaves the shown set empty and the invisible
\* set as it was, and returns exactly the ids that were shown and not invisible,
\* which are exactly the registered ids whose effective visibility went from
\* true to false.
C6_MarkAllNotShown ==
    Returned("mark_all_webviews_not_shown") =>
        /\ shown_webviews = {}
        /\ invisible_webviews = before.invisible_webviews
        /\ ret = {id \in Ids : id \in before.shown_webviews
                               /\ id \notin before.invisible_webviews}
        /\ ret = {id \in Registered :
                      VisibleIn(before, id) /\ ~VisibleIn(Snapshot, id)}

\* mark_all_webviews_not_shown with one webview shown and visible and another
\* shown but invisible: only the first is returned.
C6_Witness ==
    /\ Returned("mark_all_webviews_not_shown")
    /\ ret # {}
    /\ before.shown_webviews \cap before.invisible_webviews # {}

\* C7: the caller's mirror (false when a webview is created, flipped on every
\* true return of a mark_* call and for every id in a
\* mark_all_webviews_not_shown result, dropped on remove) equals the effective
\* visibility of every registered id after every call.
C7_MirrorIsEffectiveVisibility ==
    /\ DOMAIN mirror = Registered
    /\ \A id \in Registered :
           mirror[id] = (id \in shown_webviews /\ id \notin invisible_webviews)

\* mark_webview_not_invisible unmasks a shown webview: the call returns true and
\* the mirror, flipped, says visible.
C7_Witness ==
    /\ Returned("mark_webview_not_invisible")
    /\ ret = TRUE
    /\ mirror[call.id]

\* C8: focused_webview returns absence exactly when the focused flag is false,
\* and otherwise the last element of the focus order with its registered
\* payload; the flag is false after remove of the focused webview and only a
\* focus call makes it true again.
C8_FocusedWebview ==
    /\ call.op = "focused_webview" =>
           /\ panic = NoPanic
           /\ (ret = None) <=> ~is_focused
           /\ is_focused =>
                  /\ Len(focus_order) > 0
                  /\ focus_order[Len(focus_order)] \in Registered
                  /\ ret = Some(<<focus_order[Len(focus_order)],
                                  webviews[focus_order[Len(focus_order)]]>>)
    /\ (Returned("remove") /\ FocusedIn(before) # << >>
            /\ TailOf(before.focus_order) = <<call.id>>) => ~is_focused
    /\ (is_focused /\ ~before.is_focused) => call.op = "focus"

\* focused_webview returns absence although the focus order is not empty.
C8_Witness ==
    /\ Returned("focused_webview")
    /\ ret = None
    /\ Len(focus_order) > 0

C11_UnfocusOnlyClearsFlag ==
    Returned("unfocus") =>
        /\ is_focused = FALSE
        /\ focus_order = before.focus_order
        /\ webviews = before.webviews
        /\ shown_webviews = before.shown_webviews
        /\ invisible_webviews = before.invisible_webviews

\* unfocus while a webview is focused, with a focus order of two entries and
\* marked webviews.
C11_Witness ==
    /\ Returned("unfocus")
    /\ before.is_focused
    /\ Len(focus_order) >= 2
    /\ shown_webviews # {}
    /\ invisible_webviews # {}

\* C12: add(id, payload) changes only the registry entry for id: the focus
\* order, the focused flag, both marker sets and the payloads of the other ids
\* are as they were, whether id was registered or not; a focused, shown or
\* invisible id that is added again stays so.
C12_AddOnlyWritesEntry ==
    Returned("add") =>
        /\ focus_order = before.focus_order
        /\ is_focused = before.is_focused
        /\ shown_webviews = before.shown_webviews
        /\ invisible_webviews = before.invisible_webviews
        /\ Registered = DOMAIN before.webviews \cup {call.id}
        /\ webviews[call.id] = call.webview
        /\ \A x \in Registered \ {call.id} : webviews[x] = before.webviews[x]

\* add of an id that is registered, focused, shown and invisible, with a payload
\* other than the one it had.
C12_Witness ==
    /\ Returned("add")
    /\ call.id \in DOMAIN before.webviews
    /\ before.webviews[call.id] # call.webview
    /\ before.is_focused
    /\ TailOf(before.focus_order) = <<call.id>>
    /\ call.id \in before.shown_webviews
    /\ call.id \in before.invisible_webviews

\* C13: get(id) returns the payload of the latest add(id, _) since id's last
\* removal, whatever other calls came in between, and absence if there was none;
\* remove(id) returns that payload and leaves id unregistered.
C13_GetReturnsLatestAdd ==
    /\ webviews = latest.webview
    /\ Returned("get") =>
           ret = IF call.id \in DOMAIN latest.webview
                 THEN Some(latest.webview[call.id])
                 ELSE None
    /\ Returned("remove") =>
           /\ ret = IF call.id \in DOMAIN before.webviews
                    THEN Some(before.webviews[call.id])
                    ELSE None
           /\ call.id \notin Registered
           /\ call.id \notin DOMAIN latest.webview

\* get of a webview that has been focused and marked since it was added.
C13_Witness ==
    /\ Returned("get")
    /\ ret # None
    /\ call.id \in Elems(focus_order)
    /\ call.id \in shown_webviews
    /\ call.id \in invisible_webviews

\* C14: for every registered id, is_effectively_visible(id) is true exactly when
\* id is in the shown set and not in the invisible set, where id is in the shown
\* set iff the latest shown-marker call for it (mark_webview_shown,
\* mark_webview_not_shown, mark_all_webviews_not_shown) since its last removal
\* was mark_webview_shown, and in the invisible set iff the latest of
\* mark_webview_invisible and mark_webview_not_invisible was
\* mark_webview_invisible: each marker follows its own calls only.
C14_VisibilityFollowsLatestMarks ==
    /\ shown_webviews = latest.shown
    /\ invisible_webviews = latest.invisible
    /\ Returned("is_effectively_visible") =>
           /\ call.id \in Registered
           /\ ret = (call.id \in shown_webviews /\ call.id \notin invisible_webviews)
           /\ ret = (call.id \in latest.shown /\ call.id \notin latest.invisible)

\* is_effectively_visible of a webview that is shown and invisible, with another
\* webview that is visible.
C14_Witness ==
    /\ Returned("is_effectively_visible")
    /\ ret = FALSE
    /\ call.id \in shown_webviews
    /\ call.id \in invisible_webviews
    /\ \E other \in Registered : VisibleIn(Snapshot, other)

\* The methods that assert that their id is registered.
AssertingOps == MarkOps \cup {"focus", "is_effectively_visible"}

\* C15: with assertions enabled, focus, the four mark_* methods and
\* is_effectively_visible called with an unregistered id fail their assertion
\* with every field as it was (and do not fail it with a registered id); get,
\* get_mut, remove and focused_webview never fail an assertion and report an
\* unregistered id or the unfocused case as absence.
C15_AssertionsAndAbsence ==
    /\ call.op \in AssertingOps =>
           /\ panic \in {NoPanic, PanicPrecondition}
           /\ (panic = PanicPrecondition) <=> (call.id \notin DOMAIN before.webviews)
    /\ panic # NoPanic => Snapshot = before
    /\ call.op \in {"get", "get_mut", "remove", "focused_webview"} =>
           panic = NoPanic
    /\ (call.op \in {"get", "get_mut", "remove"}
            /\ call.id \notin DOMAIN before.webviews) => ret = None
    /\ (call.op = "focused_webview" /\ ~before.is_focused) => ret = None

\* focus of an unregistered id while another webview is registered and focused:
\* the assertion fails.
C15_Witness ==
    /\ call.op = "focus"
    /\ panic = PanicPrecondition
    /\ call.id \notin Registered
    /\ is_focused

\* The pair (id in shown set, id in invisible set) in a snapshot s.
PairIn(s, id) == <<id \in s.shown_webviews, id \in s.invisible_webviews>>

\* C16 as stated: each mark_* method, called with a registered id, returns true
\* iff the pair (id in shown set, id in invisible set) after the call differs
\* from the pair before it.
C16_ReturnsPairChanged ==
    (call.op \in MarkOps /\ panic = NoPanic) =>
        ret = (PairIn(Snapshot, call.id) # PairIn(before, call.id))

\* C16, amended: each mark_* method, called with a registered id, returns true
\* iff the pair changes and the id is effectively visible (shown and not
\* invisible) before or after the call; a change of the pair that the other
\* marker masks returns false.
C16_ReturnsUnmaskedPairChange ==
    (call.op \in MarkOps /\ panic = NoPanic) =>
        ret = (/\ PairIn(Snapshot, call.id) # PairIn(before, call.id)
               /\ \/ PairIn(before, call.id) = <<TRUE, FALSE>>
                  \/ PairIn(Snapshot, call.id) = <<TRUE, FALSE>>)

\* mark_webview_shown of an invisible webview that was not shown: the pair
\* changes and the call returns false.
C16_Witness ==
    /\ Returned("mark_webview_shown")
    /\ PairIn(before, call.id) = <<FALSE, TRUE>>
    /\ PairIn(Snapshot, call.id) = <<TRUE, TRUE>>
    /\ ret = FALSE

\* C17: for a registered id, mark_webview_shown returns true iff id was neither
\* shown nor invisible; mark_webview_not_shown and mark_webview_invisible return
\* true iff id was shown and not invisible; mark_webview_not_invisible returns
\* true iff id was shown and invisible.
C17_ReturnValueTable ==
    /\ Returned("mark_webview_shown") =>
           ret = (PairIn(before, call.id) = <<FALSE, FALSE>>)
    /\ Returned("mark_webview_not_shown") =>
           ret = (PairIn(before, call.id) = <<TRUE, FALSE>>)
    /\ Returned("mark_webview_invisible") =>
           ret = (PairIn(before, call.id) = <<TRUE, FALSE>>)
    /\ Returned("mark_webview_not_invisible") =>
           ret = (PairIn(before, call.id) = <<TRUE, TRUE>>)

\* mark_webview_not_invisible of an invisible webview that is not shown: the
\* invisible set changes and the call returns false.
C17_Witness ==
    /\ Returned("mark_webview_not_invisible")
    /\ PairIn(before, call.id) = <<FALSE, TRUE>>
    /\ PairIn(Snapshot, call.id) = <<FALSE, FALSE>>
    /\ ret = FALSE

\* C18: focus is idempotent.  A state left by focus(id) has the focused flag set
\* and id last in the focus order (C10); from every such state focus(id) leaves
\* all fields as they are, and after any focus(id) the focus order holds id
\* exactly once, at its end.
C18_FocusIdempotent ==
    Returned("focus") =>
        /\ Cardinality({i \in 1..Len(focus_order) : focus_order[i] = call.id}) = 1
        /\ TailOf(focus_order) = <<call.id>>
        /\ (before.is_focused /\ TailOf(before.focus_order) = <<call.id>>) =>
               Snapshot = before

\* focus of the id that is focused already, last of a focus order of two, with
\* marked webviews.
C18_Witness ==
    /\ Returned("focus")
    /\ before.is_focused
    /\ TailOf(before.focus_order) = <<call.id>>
    /\ Len(before.focus_order) >= 2
    /\ shown_webviews # {}

\* C19: right after add(id, p) for an id that was not registered, id is not in
\* the focus order, is not the focused webview and is in neither marker set.
C19_NewWebviewStartsClean ==
    (Returned("add") /\ call.id \notin DOMAIN before.webviews) =>
        /\ call.id \notin Elems(focus_order)
        /\ FocusedIn(Snapshot) = << >> \/ Head(FocusedIn(Snapshot)) # call.id
        /\ call.id \notin shown_webviews
        /\ call.id \notin invisible_webviews

\* add of an unregistered id while another webview is focused, shown and
\* invisible.
C19_Witness ==
    /\ Returned("add")
    /\ call.id \notin DOMAIN before.webviews
    /\ FocusedIn(Snapshot) # << >>
    /\ shown_webviews # {}
    /\ invisible_webviews # {}

\* C20: mark_webview_shown / mark_webview_not_shown change at most the
\* membership of id in the shown set, mark_webview_invisible /
\* mark_webview_not_invisible at most that of id in the invisible set; no mark
\* method changes the registry, the focus order or the focused flag; focus and
\* unfocus change neither marker set; get, get_mut, focused_webview and
\* is_effectively_visible change nothing.
C20_FocusAndVisibilityIndependent ==
    /\ (call.op \in {"mark_webview_shown", "mark_webview_not_shown"}) =>
           /\ shown_webviews \ {call.id} = before.shown_webviews \ {call.id}
           /\ invisible_webviews = before.invisible_webviews
    /\ (call.op \in {"mark_webview_invisible", "mark_webview_not_invisible"}) =>
           /\ invisible_webviews \ {call.id} = before.invisible_webviews \ {call.id}
           /\ shown_webviews = before.shown_webviews
    /\ (call.op \in MarkOps \cup {"mark_all_webviews_not_shown"}) =>
           /\ webviews = before.webviews
           /\ focus_order = before.focus_order
           /\ is_focused = before.is_focused
    /\ (call.op \in {"focus", "unfocus"}) =>
           /\ shown_webviews = before.shown_webviews
           /\ invisible_webviews = before.invisible_webviews
    /\ (call.op \in {"get", "get_mut", "focused_webview", "is_effectively_visible"}) =>
           Snapshot = before

\* mark_webview_shown of an invisible webview while the other webview is shown
\* and a webview is focused.
C20_Witness ==
    /\ Returned("mark_webview_shown")
    /\ call.id \notin before.shown_webviews
    /\ call.id \in before.invisible_webviews
    /\ before.shown_webviews # {}
    /\ before.is_focused

====
